---- MODULE Spec2Model ----
(***************************************************************************)
(* Model of starter.py: the spatial-size bookkeeping of the VAE (Encoder,  *)
(* Decoder, VAE.calculate_decoder_input_size, Decoder.calc_size_layer),    *)
(* the shape of a forward pass, the training loop (train and the main      *)
(* loop) and evaluate_score.                                               *)
(*                                                                         *)
(* Three specifications share the module:                                  *)
(*   Spec       construction of the VAE followed by one forward pass;      *)
(*   SpecTrain  the main loop calling train once per epoch;                *)
(*   SpecScore  evaluate_score on a batch of grids.                        *)
(* Tensors are modelled by their spatial size <<h, w>>; losses by small    *)
(* naturals; the score by an exact fraction <<numerator, denominator>>.    *)
(***************************************************************************)
EXTENDS Integers, Sequences, FiniteSets, TLC

VARIABLES
    \* ---- construction and forward pass (Spec)
    image_size,          \* <<H, W>>                                (line 224)
    kernel_size,         \* k                                       (line 229)
    stride,              \* s                                       (line 230)
    num_layers,          \* L                                       (line 228)
    pc,                  \* position in VAE.__init__ / VAE.forward
    enc_norm,            \* Encoder.conv_layers: LayerNorm <<h, w>> per block
    final_flatten_size,  \* Encoder.final_flatten_size
    decoder_input_size,  \* Decoder.decoder_input_size
    fc_out,              \* out_features of Decoder.fc
    deconv_layers,       \* Decoder.deconv_layers: [pad, norm] per block
    final_pad,           \* ReplicationPad2d of Decoder.final_layer: <<pad_h, pad_w>>
    x_size,              \* spatial size of the tensor flowing through forward
    layer_idx,           \* number of blocks the tensor has passed in the current loop
    \* ---- training loop (SpecTrain)
    tpc,                 \* position in the main loop / train
    data_len,            \* len(data_in_tensor)
    batch_size,          \* batch_size                              (line 232)
    num_epochs,          \* num_epochs                              (line 231)
    epoch,               \* loop variable of the main loop
    batch_idx,           \* loop variable of train
    num_batches,         \* train's num_batches
    data_in,             \* index range <<start, end>> of the current input batch
    data_out,            \* index range <<start, end>> of the current target batch
    used,                \* used[i]: how often sample i was put in a batch this epoch
    train_loss,          \* train's accumulator
    loss,                \* loss of the current batch
    batch_losses,        \* the values loss.item() took in this epoch, in order
    grads,               \* number of backward passes accumulated in .grad
    params,              \* number of optimizer steps applied to the parameters
    reported,            \* average_train_loss as <<numerator, denominator>>
    \* ---- scoring (SpecScore)
    spc,                 \* position in evaluate_score
    masked_topologies,   \* batch of grids, cells in {0, 1, 2} standing for {0, 0.5, 1}
    original_topologies, \* batch of grids, cells in {0, 1}
    reconstructed_topologies, \* batch of grids, cells in {0, 1}
    score                \* returned value as a fraction <<num, den>>; <<0, 0>> is nan

shape_vars == <<image_size, kernel_size, stride, num_layers, pc, enc_norm,
                final_flatten_size, decoder_input_size, fc_out, deconv_layers,
                final_pad, x_size, layer_idx>>
train_vars == <<tpc, data_len, batch_size, num_epochs, epoch, batch_idx,
                num_batches, data_in, data_out, used, train_loss, loss,
                batch_losses, grads, params, reported>>
score_vars == <<spc, masked_topologies, original_topologies,
                reconstructed_topologies, score>>
vars == <<shape_vars, train_vars, score_vars>>

\* ------------------------------------------------------------------ bounds
MaxImage  == 6
MaxKernel == 5
MaxStride == 3
MaxLayers == 3
MaxData   == 5
MaxBatch  == 3
MaxEpochs == 2
MaxLoss   == 2
MaxSamples == 2
MaxRows   == 2
MaxCols   == 2
MaxCells  == 4

\* ------------------------------------------------------- program constants
hidden_size == 64
DefaultImage == 64
DefaultBatch == 64
\* Cells are stored doubled, so that the sentinel 0.5 of a masked cell is 1.
Half == 1

\* ======================================================================
\*  Size arithmetic
\* ======================================================================

\* Encoder.__init__, lines 53-54, with a padding term that is not in the code.
EncoderConvSizePadded(h, k, s) == (h - k + 2) \div s + 1

\* Encoder.__init__, lines 53-54: h = (h - kernel_size) // stride + 1
\* (Python's // and TLA+'s \div both round towards minus infinity).
EncoderConvSize(h, k, s) == (h - k) \div s + 1

\* The sizes the Encoder's loop computes, one <<h, w>> per block.
RECURSIVE EncoderSizes(_, _, _, _)
EncoderSizes(hw, n, k, s) ==
    IF n = 0 THEN <<>>
    ELSE LET nx == <<EncoderConvSize(hw[1], k, s), EncoderConvSize(hw[2], k, s)>>
         IN  <<nx>> \o EncoderSizes(nx, n - 1, k, s)

\* VAE.calculate_decoder_input_size with one loop iteration too few.
RECURSIVE calculate_decoder_input_size_short(_, _, _, _)
calculate_decoder_input_size_short(hw, n, k, s) ==
    IF n <= 1 THEN hw
    ELSE calculate_decoder_input_size_short(
             <<(hw[1] - k) \div s + 1, (hw[2] - k) \div s + 1>>, n - 1, k, s)

\* VAE.calculate_decoder_input_size, lines 24-30.
RECURSIVE calculate_decoder_input_size(_, _, _, _)
calculate_decoder_input_size(hw, n, k, s) ==
    IF n <= 0 THEN hw
    ELSE calculate_decoder_input_size(
             <<(hw[1] - k) \div s + 1, (hw[2] - k) \div s + 1>>, n - 1, k, s)

\* The loop of Decoder.calc_size_layer, lines 113-115: n iterations.
RECURSIVE CalcSizeLoop(_, _, _, _)
CalcSizeLoop(hw, n, k, s) ==
    IF n <= 0 THEN hw
    ELSE CalcSizeLoop(<<(hw[1] - k) \div s + 1, (hw[2] - k) \div s + 1>>, n - 1, k, s)

\* Decoder.calc_size_layer looping range(num_layers - layer_num): one too many.
calc_size_layer_off(layer_num, L, k, s, hw) == CalcSizeLoop(hw, L - layer_num, k, s)

\* Decoder.calc_size_layer, lines 110-116.
calc_size_layer(layer_num, L, k, s, hw) == CalcSizeLoop(hw, L - layer_num - 1, k, s)

\* Lines 89-90 and 105-106 with stride*h in place of stride*(h-1).
OutputPaddingNoMinusOne(next, k, s, h) == next - k - s * h

\* Lines 89-90 and 105-106: output_padding = next - kernel_size - stride*(h-1).
OutputPadding(next, k, s, h) == next - k - s * (h - 1)

\* The loop of Decoder.__init__, lines 87-99: the blocks layer_num..L-2, the
\* first of them fed a map of size hw.
RECURSIVE DeconvLayers(_, _, _, _, _, _)
DeconvLayers(hw, layer_num, L, k, s, img) ==
    IF layer_num >= L - 1 THEN <<>>
    ELSE LET next == calc_size_layer(layer_num, L, k, s, img)
             blk  == [pad  |-> <<OutputPadding(next[1], k, s, hw[1]),
                                 OutputPadding(next[2], k, s, hw[2])>>,
                      norm |-> next]
         IN  <<blk>> \o DeconvLayers(next, layer_num + 1, L, k, s, img)

\* h, w when the loop of Decoder.__init__ has ended (line 99, or line 86 when
\* the loop has no iteration).
LastDeconvSize(layers, input) ==
    IF Len(layers) = 0 THEN input ELSE layers[Len(layers)].norm

\* nn.ConvTranspose2d(.., kernel_size, stride) on a map of size h (lines 93, 108).
ConvTransposeOut(h, k, s) == (h - 1) * s + k

\* nn.Conv2d(.., kernel_size, stride) on a map of size h (line 57).
Conv2dOut(h, k, s) == (h - k) \div s + 1

\* nn.LayerNorm([hidden_size, h, w]) (lines 58, 95): its weight is a tensor of
\* that shape, and a tensor with a negative dimension cannot be created; a
\* dimension of 0 gives an empty tensor and no error.
LayerNormRaises(hw) == hw[1] < 0 \/ hw[2] < 0

\* nn.Linear(in_features, out_features) (lines 66, 67, 84) raises likewise.
LinearRaises(features) == features < 0

\* ======================================================================
\*  Spec: VAE.__init__ followed by one VAE.forward
\* ======================================================================

ImageDims == (1 .. MaxImage) \cup {DefaultImage}

\* The values the variables of the other two specifications keep.
TrainIdle ==
    /\ tpc = "idle" /\ data_len = 0 /\ batch_size = 1 /\ num_epochs = 0
    /\ epoch = 0 /\ batch_idx = 0 /\ num_batches = 0
    /\ data_in = <<0, 0>> /\ data_out = <<0, 0>> /\ used = <<>>
    /\ train_loss = 0 /\ loss = 0 /\ batch_losses = <<>>
    /\ grads = 0 /\ params = 0 /\ reported = <<>>

ScoreIdle ==
    /\ spc = "idle" /\ masked_topologies = <<>> /\ original_topologies = <<>>
    /\ reconstructed_topologies = <<>> /\ score = <<>>

ShapeIdle ==
    /\ image_size = <<DefaultImage, DefaultImage>> /\ kernel_size = 1 /\ stride = 1
    /\ num_layers = 1 /\ pc = "idle" /\ enc_norm = <<>> /\ final_flatten_size = 0
    /\ decoder_input_size = <<0, 0>> /\ fc_out = 0 /\ deconv_layers = <<>>
    /\ final_pad = <<0, 0>> /\ x_size = <<0, 0>> /\ layer_idx = 0

\* Line 234: VAE(input_channels, hidden_size, num_layers, latent_dim,
\* image_size, kernel_size, stride) is about to be constructed.
Init ==
    /\ image_size \in ImageDims \X ImageDims
    /\ kernel_size \in 1 .. MaxKernel
    /\ stride \in 1 .. MaxStride
    /\ num_layers \in 1 .. MaxLayers
    /\ pc = "Encoder"
    /\ enc_norm = <<>>
    /\ final_flatten_size = 0
    /\ decoder_input_size = <<0, 0>>
    /\ fc_out = 0
    /\ deconv_layers = <<>>
    /\ final_pad = <<0, 0>>
    /\ x_size = <<0, 0>>
    /\ layer_idx = 0
    /\ TrainIdle
    /\ ScoreIdle

\* Encoder.__init__, lines 46-67 (called at line 18).
EncoderInit ==
    /\ pc = "Encoder"
    /\ LET sizes == EncoderSizes(image_size, num_layers, kernel_size, stride)
           last  == sizes[num_layers]
           flat  == last[1] * last[2] * hidden_size
       IN  IF (\E i \in 1 .. num_layers : LayerNormRaises(sizes[i])) \/ LinearRaises(flat)
           THEN /\ pc' = "ConstructionError"
                /\ UNCHANGED <<enc_norm, final_flatten_size>>
           ELSE /\ enc_norm' = sizes
                /\ final_flatten_size' = flat
                /\ pc' = "calculate_decoder_input_size"
    /\ UNCHANGED <<image_size, kernel_size, stride, num_layers, decoder_input_size,
                   fc_out, deconv_layers, final_pad, x_size, layer_idx>>
    /\ UNCHANGED <<train_vars, score_vars>>

\* Line 21: decoder_input_size = self.calculate_decoder_input_size(...).
CalcDecoderInputSize ==
    /\ pc = "calculate_decoder_input_size"
    /\ decoder_input_size' =
           calculate_decoder_input_size(image_size, num_layers, kernel_size, stride)
    /\ pc' = "Decoder"
    /\ UNCHANGED <<image_size, kernel_size, stride, num_layers, enc_norm,
                   final_flatten_size, fc_out, deconv_layers, final_pad, x_size,
                   layer_idx>>
    /\ UNCHANGED <<train_vars, score_vars>>

\* Decoder.__init__, lines 78-109 (called at line 22).
DecoderInit ==
    /\ pc = "Decoder"
    /\ LET out    == hidden_size * decoder_input_size[1] * decoder_input_size[2]
           layers == DeconvLayers(decoder_input_size, 0, num_layers, kernel_size,
                                  stride, image_size)
           hw     == LastDeconvSize(layers, decoder_input_size)
       IN  IF LinearRaises(out)
              \/ \E i \in 1 .. Len(layers) : LayerNormRaises(layers[i].norm)
           THEN /\ pc' = "ConstructionError"
                /\ UNCHANGED <<fc_out, deconv_layers, final_pad>>
           ELSE /\ fc_out' = out
                /\ deconv_layers' = layers
                /\ final_pad' =
                       <<OutputPadding(image_size[1], kernel_size, stride, hw[1]),
                         OutputPadding(image_size[2], kernel_size, stride, hw[2])>>
                /\ pc' = "built"
    /\ UNCHANGED <<image_size, kernel_size, stride, num_layers, enc_norm,
                   final_flatten_size, decoder_input_size, x_size, layer_idx>>
    /\ UNCHANGED <<train_vars, score_vars>>

\* Line 149 (or 165, 240): model(data_in) with images of the size the model was
\* built for; VAE.forward calls self.encoder(x_in), line 40.
ForwardStart ==
    /\ pc = "built"
    /\ x_size' = image_size
    /\ layer_idx' = 0
    /\ pc' = "encoder_forward"
    /\ UNCHANGED <<image_size, kernel_size, stride, num_layers, enc_norm,
                   final_flatten_size, decoder_input_size, fc_out, deconv_layers,
                   final_pad>>
    /\ UNCHANGED <<train_vars, score_vars>>

\* One iteration of Encoder.forward's loop, lines 70-71: Conv2d, LayerNorm,
\* ReLU. Conv2d raises when the kernel is larger than its input; LayerNorm
\* raises when the map is not of the shape it was built for.
EncoderForwardLayer ==
    /\ pc = "encoder_forward"
    /\ layer_idx < Len(enc_norm)
    /\ LET out == <<Conv2dOut(x_size[1], kernel_size, stride),
                    Conv2dOut(x_size[2], kernel_size, stride)>>
       IN  IF x_size[1] < kernel_size \/ x_size[2] < kernel_size
           THEN /\ pc' = "ForwardError"
                /\ UNCHANGED <<x_size, layer_idx>>
           ELSE /\ x_size' = out
                /\ IF out = enc_norm[layer_idx + 1]
                   THEN pc' = pc /\ layer_idx' = layer_idx + 1
                   ELSE pc' = "ForwardError" /\ layer_idx' = layer_idx
    /\ UNCHANGED <<image_size, kernel_size, stride, num_layers, enc_norm,
                   final_flatten_size, decoder_input_size, fc_out, deconv_layers,
                   final_pad>>
    /\ UNCHANGED <<train_vars, score_vars>>

\* Encoder.forward, lines 72-75: flatten, then fc_mu and fc_logvar, which take
\* final_flatten_size features.
EncoderForwardHeads ==
    /\ pc = "encoder_forward"
    /\ layer_idx = Len(enc_norm)
    /\ pc' = IF hidden_size * x_size[1] * x_size[2] = final_flatten_size
             THEN "reparameterize" ELSE "ForwardError"
    /\ UNCHANGED <<image_size, kernel_size, stride, num_layers, enc_norm,
                   final_flatten_size, decoder_input_size, fc_out, deconv_layers,
                   final_pad, x_size, layer_idx>>
    /\ UNCHANGED <<train_vars, score_vars>>

\* VAE.reparameterize, lines 32-36 (line 41), then Decoder.forward's fc and
\* view, lines 120-121: the map takes the size decoder_input_size.
DecoderForwardFc ==
    /\ pc = "reparameterize"
    /\ IF fc_out = hidden_size * decoder_input_size[1] * decoder_input_size[2]
       THEN /\ x_size' = decoder_input_size
            /\ layer_idx' = 0
            /\ pc' = "deconv"
       ELSE /\ pc' = "ForwardError"
            /\ UNCHANGED <<x_size, layer_idx>>
    /\ UNCHANGED <<image_size, kernel_size, stride, num_layers, enc_norm,
                   final_flatten_size, decoder_input_size, fc_out, deconv_layers,
                   final_pad>>
    /\ UNCHANGED <<train_vars, score_vars>>

\* One iteration of Decoder.forward's loop, lines 122-123: ConvTranspose2d,
\* ReplicationPad2d on the trailing edges, LayerNorm, ReLU.
DecoderForwardLayer ==
    /\ pc = "deconv"
    /\ layer_idx < Len(deconv_layers)
    /\ LET blk == deconv_layers[layer_idx + 1]
           out == <<ConvTransposeOut(x_size[1], kernel_size, stride) + blk.pad[1],
                    ConvTransposeOut(x_size[2], kernel_size, stride) + blk.pad[2]>>
       IN  /\ x_size' = out
           /\ IF out = blk.norm
              THEN pc' = pc /\ layer_idx' = layer_idx + 1
              ELSE pc' = "ForwardError" /\ layer_idx' = layer_idx
    /\ UNCHANGED <<image_size, kernel_size, stride, num_layers, enc_norm,
                   final_flatten_size, decoder_input_size, fc_out, deconv_layers,
                   final_pad>>
    /\ UNCHANGED <<train_vars, score_vars>>

\* Decoder.forward, lines 124-125: final_layer (ConvTranspose2d and
\* ReplicationPad2d), then the sigmoid.
DecoderForwardFinal ==
    /\ pc = "deconv"
    /\ layer_idx = Len(deconv_layers)
    /\ x_size' = <<ConvTransposeOut(x_size[1], kernel_size, stride) + final_pad[1],
                   ConvTransposeOut(x_size[2], kernel_size, stride) + final_pad[2]>>
    /\ pc' = "done"
    /\ UNCHANGED <<image_size, kernel_size, stride, num_layers, enc_norm,
                   final_flatten_size, decoder_input_size, fc_out, deconv_layers,
                   final_pad, layer_idx>>
    /\ UNCHANGED <<train_vars, score_vars>>

Next ==
    \/ EncoderInit
    \/ CalcDecoderInputSize
    \/ DecoderInit
    \/ ForwardStart
    \/ EncoderForwardLayer
    \/ EncoderForwardHeads
    \/ DecoderForwardFc
    \/ DecoderForwardLayer
    \/ DecoderForwardFinal

Spec == Init /\ [][Next]_vars

\* ======================================================================
\*  Properties of the size arithmetic (specification Spec)
\* ======================================================================

\* The encoder's size trace h_1..h_L, w_1..w_L of the configuration.
Trace == EncoderSizes(image_size, num_layers, kernel_size, stride)

\* Every encoder size of the configuration is > 0.
ValidConfig == \A i \in 1 .. num_layers : Trace[i][1] > 0 /\ Trace[i][2] > 0

\* The positions at which both the Encoder and the Decoder exist.
Built == pc \in {"built", "encoder_forward", "reparameterize", "deconv", "done",
                 "ForwardError"}

\* C1: in every configuration whose encoder sizes are all > 0, construction
\* and the forward pass raise nothing, the map leaving each of the L-1
\* upsampling blocks has the size of that block's LayerNorm, and the map
\* leaving the final block has exactly the image size.
C1_DecoderRestoresImageSize ==
    ValidConfig =>
        /\ pc \notin {"ConstructionError", "ForwardError"}
        /\ (pc = "deconv" /\ layer_idx >= 1 => x_size = deconv_layers[layer_idx].norm)
        /\ (pc = "done" => x_size = image_size)

\* A non-square image went through two or more layers and came out at its
\* own size, the final block having needed a pad correction.
C1_Witness ==
    /\ ValidConfig /\ pc = "done" /\ num_layers >= 2
    /\ image_size[1] # image_size[2]
    /\ x_size = image_size
    /\ final_pad[1] > 0

\* C2: in every configuration whose encoder sizes are all > 0, the pad
\* correction of every upsampling block and of the final block of the built
\* Decoder is >= 0 on both axes.
C2_PadsNonNegative ==
    ValidConfig /\ Built =>
        /\ \A i \in 1 .. Len(deconv_layers) :
               deconv_layers[i].pad[1] >= 0 /\ deconv_layers[i].pad[2] >= 0
        /\ final_pad[1] >= 0 /\ final_pad[2] >= 0

\* A Decoder with two upsampling blocks was built, one of them with a pad
\* correction > 0.
C2_Witness ==
    /\ ValidConfig /\ pc = "built" /\ Len(deconv_layers) = 2
    /\ \E i \in 1 .. 2 : deconv_layers[i].pad[1] > 0

\* C3: a configuration in which some encoder size is <= 0 never gets past
\* construction: the constructor raises, no Encoder or Decoder holding such a
\* size exists, and no forward pass is reached.
C3_NonPositiveSizeFailsAtBuild ==
    ~ValidConfig => pc \in {"Encoder", "ConstructionError"}

\* C8: the size sequence h_0, h_1, .., h_L (and w likewise) never increases,
\* also where it runs into sizes <= 0.
C8_SizesNonIncreasing ==
    /\ Trace[1][1] <= image_size[1] /\ Trace[1][2] <= image_size[2]
    /\ \A i \in 1 .. num_layers - 1 :
           Trace[i + 1][1] <= Trace[i][1] /\ Trace[i + 1][2] <= Trace[i][2]

\* The Encoder's constructor ran on a configuration whose trace goes
\* negative and keeps shrinking below zero.
C8_Witness ==
    /\ pc = "ConstructionError" /\ num_layers = 3
    /\ Trace[2][1] < 0 /\ Trace[3][1] < Trace[2][1]

\* C9: the three size computations agree. As functions of the configuration:
\* calculate_decoder_input_size gives the Encoder's last size, and
\* calc_size_layer(j) gives the Encoder's size L-1-j. In the built objects:
\* the Decoder's input size is the Encoder's last LayerNorm size, both linear
\* sizes are hidden_size * h_L * w_L, the LayerNorm sizes of the upsampling
\* blocks are the Encoder's in reverse order, and the final block pads up to
\* the image size.
C9_SizeComputationsAgree ==
    /\ calculate_decoder_input_size(image_size, num_layers, kernel_size, stride)
           = Trace[num_layers]
    /\ \A j \in 0 .. num_layers - 2 :
           calc_size_layer(j, num_layers, kernel_size, stride, image_size)
               = Trace[num_layers - 1 - j]
    /\ pc = "Decoder" \/ Built => decoder_input_size = enc_norm[num_layers]
    /\ Built =>
           /\ final_flatten_size
                  = hidden_size * enc_norm[num_layers][1] * enc_norm[num_layers][2]
           /\ fc_out = final_flatten_size
           /\ Len(deconv_layers) = num_layers - 1
           /\ \A j \in 0 .. num_layers - 2 :
                  deconv_layers[j + 1].norm = enc_norm[num_layers - 1 - j]
           /\ \A d \in 1 .. 2 :
                  ConvTransposeOut(enc_norm[1][d], kernel_size, stride) + final_pad[d]
                      = image_size[d]

\* A three-layer VAE on a non-square image was built, its encoder sizes all
\* different.
C9_Witness ==
    /\ pc = "built" /\ num_layers = 3
    /\ image_size[1] # image_size[2]
    /\ enc_norm[1] # enc_norm[2] /\ enc_norm[2] # enc_norm[3]
    /\ deconv_layers[1].norm = enc_norm[2] /\ deconv_layers[2].norm = enc_norm[1]

\* ======================================================================
\*  SpecTrain: the main loop (lines 244-245) and train (lines 133-159)
\* ======================================================================

Min(a, b) == IF a <= b THEN a ELSE b

RECURSIVE SumSeq(_)
SumSeq(q) == IF q = <<>> THEN 0 ELSE q[1] + SumSeq(Tail(q))

\* Line 136 rounding up instead of down.
NumBatchesCeil(n, b) == (n + b - 1) \div b

\* Line 136: num_batches = len(data_in_tensor) // batch_size.
NumBatches(n, b) == n \div b

\* Lines 144-145: tensor[start_idx:end_idx] on a tensor of n rows; a slice is
\* cut at the end of the tensor. The rows are numbered from 0, the range is
\* start <= i < end.
Slice(n, start_idx, end_idx) == <<Min(start_idx, n), Min(end_idx, n)>>

\* Line 148 left out: the gradients of the previous batch stay in .grad.
KeepGrad(g) == g

\* Line 148: optimizer.zero_grad().
ZeroGrad(g) == 0

\* Line 152 written as an assignment.
OverwriteLoss(total, l) == l

\* Line 152: train_loss += loss.item().
AddLoss(total, l) == total + l

\* The dataset sizes and batch sizes tried: the small ones, and 130 samples
\* in batches of 64.
TrainConfigs ==
    ((0 .. MaxData) \X (1 .. MaxBatch)) \cup {<<2 * DefaultBatch + 2, DefaultBatch>>}

InitTrain ==
    /\ \E c \in TrainConfigs : data_len = c[1] /\ batch_size = c[2]
    /\ num_epochs \in 1 .. MaxEpochs
    /\ tpc = "main_loop"
    /\ epoch = 0
    /\ batch_idx = 0
    /\ num_batches = 0
    /\ data_in = <<0, 0>>
    /\ data_out = <<0, 0>>
    /\ used = [i \in 0 .. data_len - 1 |-> 0]
    /\ train_loss = 0
    /\ loss = 0
    /\ batch_losses = <<>>
    /\ grads = 0
    /\ params = 0
    /\ reported = <<>>
    /\ ShapeIdle
    /\ ScoreIdle

\* Lines 244-245 and 134-139: the next epoch calls train, which starts its
\* accumulator at 0 and counts its batches.
TrainEnter ==
    /\ tpc = "main_loop"
    /\ epoch < num_epochs
    /\ epoch' = epoch + 1
    /\ train_loss' = 0
    /\ num_batches' = NumBatches(data_len, batch_size)
    /\ batch_idx' = 0
    /\ used' = [i \in 0 .. data_len - 1 |-> 0]
    /\ batch_losses' = <<>>
    /\ reported' = <<>>
    /\ tpc' = "batch_loop"
    /\ UNCHANGED <<data_len, batch_size, num_epochs, data_in, data_out, loss, grads,
                   params>>
    /\ UNCHANGED <<shape_vars, score_vars>>

\* Line 244: range(1, num_epochs + 1) is exhausted.
MainLoopExit ==
    /\ tpc = "main_loop"
    /\ epoch = num_epochs
    /\ tpc' = "finished"
    /\ UNCHANGED <<data_len, batch_size, num_epochs, epoch, batch_idx, num_batches,
                   data_in, data_out, used, train_loss, loss, batch_losses, grads,
                   params, reported>>
    /\ UNCHANGED <<shape_vars, score_vars>>

\* Lines 141-145: the next batch index, and the two slices.
BatchSlice ==
    /\ tpc = "batch_loop"
    /\ batch_idx < num_batches
    /\ LET start_idx == batch_idx * batch_size
           end_idx   == (batch_idx + 1) * batch_size
       IN  /\ data_in' = Slice(data_len, start_idx, end_idx)
           /\ data_out' = Slice(data_len, start_idx, end_idx)
           /\ used' = [i \in 0 .. data_len - 1 |->
                          IF data_in'[1] <= i /\ i < data_in'[2]
                          THEN used[i] + 1 ELSE used[i]]
    /\ tpc' = "zero_grad"
    /\ UNCHANGED <<data_len, batch_size, num_epochs, epoch, batch_idx, num_batches,
                   train_loss, loss, batch_losses, grads, params, reported>>
    /\ UNCHANGED <<shape_vars, score_vars>>

\* Line 148: optimizer.zero_grad().
OptimizerZeroGrad ==
    /\ tpc = "zero_grad"
    /\ grads' = ZeroGrad(grads)
    /\ tpc' = "forward"
    /\ UNCHANGED <<data_len, batch_size, num_epochs, epoch, batch_idx, num_batches,
                   data_in, data_out, used, train_loss, loss, batch_losses, params,
                   reported>>
    /\ UNCHANGED <<shape_vars, score_vars>>

\* Line 149: recon_batch, mu, logvar = model(data_in).
ModelForward ==
    /\ tpc = "forward"
    /\ tpc' = "loss"
    /\ UNCHANGED <<data_len, batch_size, num_epochs, epoch, batch_idx, num_batches,
                   data_in, data_out, used, train_loss, loss, batch_losses, grads,
                   params, reported>>
    /\ UNCHANGED <<shape_vars, score_vars>>

\* Line 150: loss = loss_function(recon_batch, data_out, mu, logvar); the
\* value depends on the data, the parameters and the sampled eps.
LossFunction ==
    /\ tpc = "loss"
    /\ loss' \in 0 .. MaxLoss
    /\ tpc' = "backward"
    /\ UNCHANGED <<data_len, batch_size, num_epochs, epoch, batch_idx, num_batches,
                   data_in, data_out, used, train_loss, batch_losses, grads, params,
                   reported>>
    /\ UNCHANGED <<shape_vars, score_vars>>

\* Line 151: loss.backward() adds this batch's gradients to .grad.
LossBackward ==
    /\ tpc = "backward"
    /\ grads' = grads + 1
    /\ tpc' = "accumulate"
    /\ UNCHANGED <<data_len, batch_size, num_epochs, epoch, batch_idx, num_batches,
                   data_in, data_out, used, train_loss, loss, batch_losses, params,
                   reported>>
    /\ UNCHANGED <<shape_vars, score_vars>>

\* Line 152: train_loss += loss.item().
AccumulateLoss ==
    /\ tpc = "accumulate"
    /\ train_loss' = AddLoss(train_loss, loss)
    /\ batch_losses' = Append(batch_losses, loss)
    /\ tpc' = "step"
    /\ UNCHANGED <<data_len, batch_size, num_epochs, epoch, batch_idx, num_batches,
                   data_in, data_out, used, loss, grads, params, reported>>
    /\ UNCHANGED <<shape_vars, score_vars>>

\* Line 153: optimizer.step().
OptimizerStep ==
    /\ tpc = "step"
    /\ params' = params + 1
    /\ tpc' = "postfix"
    /\ UNCHANGED <<data_len, batch_size, num_epochs, epoch, batch_idx, num_batches,
                   data_in, data_out, used, train_loss, loss, batch_losses, grads,
                   reported>>
    /\ UNCHANGED <<shape_vars, score_vars>>

\* Line 156, then back to line 141 for the next batch index.
SetPostfix ==
    /\ tpc = "postfix"
    /\ batch_idx' = batch_idx + 1
    /\ tpc' = "batch_loop"
    /\ UNCHANGED <<data_len, batch_size, num_epochs, epoch, num_batches, data_in,
                   data_out, used, train_loss, loss, batch_losses, grads, params,
                   reported>>
    /\ UNCHANGED <<shape_vars, score_vars>>

\* Lines 158-159: the average is reported and train returns. Dividing by
\* len(data_in_tensor) = 0 raises ZeroDivisionError.
ReportAverage ==
    /\ tpc = "batch_loop"
    /\ batch_idx = num_batches
    /\ IF data_len = 0
       THEN tpc' = "ZeroDivisionError" /\ reported' = reported
       ELSE tpc' = "main_loop" /\ reported' = <<train_loss, data_len>>
    /\ UNCHANGED <<data_len, batch_size, num_epochs, epoch, batch_idx, num_batches,
                   data_in, data_out, used, train_loss, loss, batch_losses, grads,
                   params>>
    /\ UNCHANGED <<shape_vars, score_vars>>

NextTrain ==
    \/ TrainEnter
    \/ MainLoopExit
    \/ BatchSlice
    \/ OptimizerZeroGrad
    \/ ModelForward
    \/ LossFunction
    \/ LossBackward
    \/ AccumulateLoss
    \/ OptimizerStep
    \/ SetPostfix
    \/ ReportAverage

SpecTrain == InitTrain /\ [][NextTrain]_vars

\* ======================================================================
\*  Properties of the training loop (specification SpecTrain)
\* ======================================================================

\* The positions inside one iteration of train's loop over the batches.
InBatch == tpc \in {"zero_grad", "forward", "loss", "backward", "accumulate",
                    "step", "postfix"}

\* train has run through its loop over the batches (and reported, unless the
\* division raised).
EpochEnded == epoch >= 1 /\ tpc \in {"main_loop", "finished", "ZeroDivisionError"}

\* The number of samples that full batches cover.
Covered == (data_len \div batch_size) * batch_size

\* C6: one call of train processes exactly floor(N / B) batches; batch i is
\* the index range [i*B, (i+1)*B) for the inputs and for the targets alike and
\* lies inside the dataset; no sample is ever used twice in an epoch, and when
\* the epoch has ended every sample below floor(N / B) * B was used once and
\* every sample from there on not at all.
C6_ContiguousFullBatches ==
    /\ epoch >= 1 => num_batches = data_len \div batch_size
    /\ InBatch =>
           /\ batch_idx < data_len \div batch_size
           /\ data_in = <<batch_idx * batch_size, (batch_idx + 1) * batch_size>>
           /\ data_out = data_in
           /\ data_in[2] <= data_len
    /\ \A i \in 0 .. data_len - 1 : used[i] <= 1
    /\ EpochEnded =>
           /\ batch_idx = data_len \div batch_size
           /\ Len(batch_losses) = data_len \div batch_size
           /\ \A i \in 0 .. data_len - 1 : used[i] = IF i < Covered THEN 1 ELSE 0

\* An epoch on 130 samples in batches of 64 has ended: 2 batches, samples
\* 0..127 used once, samples 128 and 129 never.
C6_Witness ==
    /\ data_len = 130 /\ batch_size = 64 /\ tpc = "main_loop" /\ epoch = 1
    /\ batch_idx = 2
    /\ used[0] = 1 /\ used[127] = 1 /\ used[128] = 0 /\ used[129] = 0

\* C7: the accumulator always holds the sum of the losses of the batches of
\* the current epoch only, and the average reported at the end of an epoch is
\* that sum over the full dataset size N.
C7_AverageOverDatasetSize ==
    /\ train_loss = SumSeq(batch_losses)
    /\ epoch >= 1 /\ tpc \in {"main_loop", "finished"} =>
           /\ reported = <<SumSeq(batch_losses), data_len>>
           /\ Len(batch_losses) = data_len \div batch_size

\* The second epoch on 5 samples in batches of 2 has reported: two batches
\* with different losses, divided by 5 and not by 4.
C7_Witness ==
    /\ data_len = 5 /\ batch_size = 2 /\ epoch = 2 /\ tpc = "main_loop"
    /\ params = 4
    /\ batch_losses = <<1, 2>>
    /\ reported = <<3, 5>>
    /\ reported[2] # num_batches * batch_size

\* C10, the state part: gradients are zero from the reset until the backward
\* pass and hold exactly one batch's gradients from then until the next
\* reset; the number of optimizer steps applied is the number of batches
\* completed, so E * floor(N / B) when the main loop has finished.
C10_StateOrder ==
    /\ grads <= 1
    /\ tpc \in {"forward", "loss", "backward"} => grads = 0
    /\ tpc \in {"accumulate", "step", "postfix"} => grads = 1
    /\ epoch >= 1 =>
           params = (epoch - 1) * (data_len \div batch_size) + batch_idx
                        + (IF tpc = "postfix" THEN 1 ELSE 0)
    /\ tpc = "finished" => params = num_epochs * (data_len \div batch_size)

\* C10, the step part: within a batch the steps follow in the order reset,
\* forward, loss, backward, (accumulation,) optimizer step; the parameters
\* change only in the optimizer step, by exactly one step, and that step uses
\* the gradients of one backward pass.
C10_StepOrder ==
    /\ tpc = "zero_grad" => tpc' = "forward" /\ grads' = 0
    /\ tpc = "forward" => tpc' = "loss" /\ grads' = grads
    /\ tpc = "loss" => tpc' = "backward" /\ grads' = grads
    /\ tpc = "backward" => tpc' = "accumulate" /\ grads = 0 /\ grads' = 1
    /\ tpc = "accumulate" => tpc' = "step" /\ grads' = grads
    /\ tpc = "step" => tpc' = "postfix" /\ grads = 1 /\ params' = params + 1
    /\ tpc # "step" => params' = params

\* C10: in every batch the steps happen in the order reset gradients,
\* forward pass, loss, backward pass, one optimizer step; the parameters
\* change exactly once per batch and only at the optimizer step; gradients
\* are reset before the next batch's are propagated; after E epochs exactly
\* E * floor(N / B) optimizer steps have been applied.
C10_OneStepPerBatchInOrder == [](C10_StateOrder) /\ [][C10_StepOrder]_vars

\* Two epochs of two batches each have finished with four optimizer steps.
C10_Witness ==
    /\ tpc = "finished" /\ num_epochs = 2 /\ data_len = 5 /\ batch_size = 2
    /\ params = 4 /\ grads = 1

\* ======================================================================
\*  SpecScore: evaluate_score (lines 181-187)
\* ======================================================================
\* A batch is a sequence of grids, a grid a sequence of rows, a row a
\* sequence of cells. Cells hold twice their value: 0, 1 (for 0.5), 2 (for 1)
\* in masked_topologies, and 0 or 2 in the other two arrays.

RECURSIVE GCD(_, _)
GCD(a, b) == IF b = 0 THEN a ELSE GCD(b, a % b)

\* A fraction in lowest terms.
Reduce(f) == LET g == GCD(f[1], f[2]) IN <<f[1] \div g, f[2] \div g>>

NumSamples(a) == Len(a)
NumRows(a) == Len(a[1])
NumCols(a) == Len(a[1][1])

\* Line 182: masks = masked_topologies == 0.5.
Masks(masked) ==
    [i \in 1 .. NumSamples(masked) |-> [r \in 1 .. NumRows(masked) |->
        [c \in 1 .. NumCols(masked) |-> masked[i][r][c] = Half]]]

\* Line 183: correct = reconstructed_topologies == original_topologies.
Correct(recon, orig) ==
    [i \in 1 .. NumSamples(recon) |-> [r \in 1 .. NumRows(recon) |->
        [c \in 1 .. NumCols(recon) |-> recon[i][r][c] = orig[i][r][c]]]]

\* Line 184 without the mask: every correctly predicted cell counts.
CorrectAnywhere(correct, masks) == correct

\* Line 184: correct_in_mask = np.logical_and(correct, masks).
LogicalAnd(correct, masks) ==
    [i \in 1 .. NumSamples(correct) |-> [r \in 1 .. NumRows(correct) |->
        [c \in 1 .. NumCols(correct) |-> correct[i][r][c] /\ masks[i][r][c]]]]

\* np.sum(a, axis=(1,2)) of a boolean array (line 185): per grid, the number
\* of cells that are True.
RECURSIVE SumRow(_)
SumRow(row) ==
    IF row = <<>> THEN 0 ELSE (IF row[1] THEN 1 ELSE 0) + SumRow(Tail(row))

RECURSIVE SumGrid(_)
SumGrid(g) == IF g = <<>> THEN 0 ELSE SumRow(g[1]) + SumGrid(Tail(g))

SumAxes12(a) == [i \in 1 .. NumSamples(a) |-> SumGrid(a[i])]

\* The floating-point values that are no numbers, written as the divisions
\* that produce them: nan is 0/0 and inf is x/0 for x > 0.
NaN == <<0, 0>>
Inf == <<1, 0>>

\* The division of line 185, elementwise: x / 0 is nan for x = 0 and inf
\* otherwise (numpy warns and goes on).
Divide(x, y) ==
    IF y = 0 THEN (IF x = 0 THEN NaN ELSE Inf) ELSE <<x, y>>

\* np.mean (line 186): the sum of the entries over their number; nan if an
\* entry is nan, inf if one is inf and none is nan.
RECURSIVE SumFractions(_)
SumFractions(fs) ==
    IF fs = <<>> THEN <<0, 1>>
    ELSE LET rest == SumFractions(Tail(fs))
         IN  <<fs[1][1] * rest[2] + rest[1] * fs[1][2], fs[1][2] * rest[2]>>

Mean(fs) ==
    IF \E i \in 1 .. Len(fs) : fs[i] = NaN THEN NaN
    ELSE IF \E i \in 1 .. Len(fs) : fs[i] = Inf THEN Inf
    ELSE LET total == SumFractions(fs)
         IN  Reduce(<<total[1], total[2] * Len(fs)>>)

\* evaluate_score, lines 181-187.
evaluate_score(masked, orig, recon) ==
    LET masks           == Masks(masked)
        correct         == Correct(recon, orig)
        correct_in_mask == LogicalAnd(correct, masks)
        num             == SumAxes12(correct_in_mask)
        den             == SumAxes12(masks)
        accuracy_fractions == [i \in 1 .. NumSamples(masked) |-> Divide(num[i], den[i])]
    IN  Mean(accuracy_fractions)

\* The batch shapes tried: n grids of r rows and c columns.
BatchShapes ==
    {sh \in (1 .. MaxSamples) \X (1 .. MaxRows) \X (1 .. MaxCols) :
        sh[1] * sh[2] * sh[3] <= MaxCells}

Batches(sh, values) == [1 .. sh[1] -> [1 .. sh[2] -> [1 .. sh[3] -> values]]]

\* Line 255: evaluate_score is about to be called on three arrays of one
\* shape.
InitScore ==
    /\ \E sh \in BatchShapes :
           /\ masked_topologies \in Batches(sh, {0, Half, 2})
           /\ original_topologies \in Batches(sh, {0, 2})
           /\ reconstructed_topologies \in Batches(sh, {0, 2})
    /\ spc = "call"
    /\ score = <<>>
    /\ ShapeIdle
    /\ TrainIdle

\* Lines 181-187, the whole call.
EvaluateScore ==
    /\ spc = "call"
    /\ score' = evaluate_score(masked_topologies, original_topologies,
                               reconstructed_topologies)
    /\ spc' = "returned"
    /\ UNCHANGED <<masked_topologies, original_topologies, reconstructed_topologies>>
    /\ UNCHANGED <<shape_vars, train_vars>>

NextScore == EvaluateScore

SpecScore == InitScore /\ [][NextScore]_vars

\* ======================================================================
\*  Properties of the score (specification SpecScore)
\* ======================================================================

Cells == (1 .. NumRows(masked_topologies)) \X (1 .. NumCols(masked_topologies))
Samples == 1 .. NumSamples(masked_topologies)

\* The cells of grid i that are masked, and those of them reconstructed right.
MaskCells(i) == {rc \in Cells : masked_topologies[i][rc[1]][rc[2]] = Half}
HitCells(i) ==
    {rc \in MaskCells(i) :
        reconstructed_topologies[i][rc[1]][rc[2]] = original_topologies[i][rc[1]][rc[2]]}

\* The product of the mask sizes of the grids in S, and the sum over the
\* grids i of hits(i) times the mask sizes of all the others: the mean of
\* hits(i) / mask(i) is WeightedHits / (n * MaskProduct).
RECURSIVE MaskProduct(_)
MaskProduct(S) ==
    IF S = {} THEN 1
    ELSE LET i == CHOOSE x \in S : TRUE
         IN  Cardinality(MaskCells(i)) * MaskProduct(S \ {i})

RECURSIVE WeightedHits(_)
WeightedHits(S) ==
    IF S = {} THEN 0
    ELSE LET i == CHOOSE x \in S : TRUE
         IN  Cardinality(HitCells(i)) * MaskProduct(Samples \ {i})
                 + WeightedHits(S \ {i})

\* The batch with cell (r, c) of grid i set to m, o, rc in the three arrays.
WithCell(a, i, r, c, v) == [a EXCEPT ![i][r][c] = v]

\* The score does not change when a cell outside the mask is given any
\* other unmasked content.
OutsideMaskIrrelevant ==
    \A i \in Samples : \A cell \in Cells \ MaskCells(i) :
        \A m \in {0, 2} : \A o \in {0, 2} : \A rc \in {0, 2} :
            evaluate_score(
                WithCell(masked_topologies, i, cell[1], cell[2], m),
                WithCell(original_topologies, i, cell[1], cell[2], o),
                WithCell(reconstructed_topologies, i, cell[1], cell[2], rc)) = score

\* masked=[[0,0.5],[0.5,1]], original=[[0,1],[1,1]], reconstruction=[[0,0],[1,1]].
IsExample ==
    /\ masked_topologies = << << <<0, Half>>, <<Half, 2>> >> >>
    /\ original_topologies = << << <<0, 2>>, <<2, 2>> >> >>
    /\ reconstructed_topologies = << << <<0, 0>>, <<2, 2>> >> >>

\* C4: on a batch in which every grid has a masked cell, evaluate_score
\* returns the mean over the grids of (masked cells reconstructed right) /
\* (masked cells); the value lies in [0, 1], does not depend on any cell
\* outside the mask, and is 1/2 on the example.
C4_ScoreIsMeanMaskedAccuracy ==
    spc = "returned" /\ (\A i \in Samples : MaskCells(i) # {}) =>
        /\ score \notin {NaN, Inf}
        /\ score[2] > 0 /\ 0 <= score[1] /\ score[1] <= score[2]
        /\ score[1] * (NumSamples(masked_topologies) * MaskProduct(Samples))
               = score[2] * WeightedHits(Samples)
        /\ OutsideMaskIrrelevant
        /\ IsExample => score = <<1, 2>>

\* The example has been scored.
C4_Witness == spc = "returned" /\ IsExample /\ score = <<1, 2>>

\* C5: a call on a batch in which some grid has no masked cell does not
\* return: it aborts with an error.
C5_EmptyMaskAborts ==
    (\E i \in Samples : MaskCells(i) = {}) => spc # "returned"

====
